---------------------------- MODULE Spec2Model ----------------------------
(***************************************************************************)
(* A model of DouyinDownloader (src/Python/Extractors/douyin_downloader.py):*)
(* the manifest walk of process_data, the classification of one aweme into *)
(* download calls, the file names it builds, and the streaming download    *)
(* with its temporary ".part" file, rename and utime.                      *)
(*                                                                         *)
(* Strings the code inspects (ids, uris, file names, timestamps) are       *)
(* sequences of one-character strings, so that split("/"), with_suffix and *)
(* the [a-zA-Z0-9]+ match are computed.  URLs are opaque strings: the code *)
(* only passes them to httpx.  A JSON object is a function from its keys,  *)
(* so that dict.get(key, default) is computed from DOMAIN.                 *)
(***************************************************************************)
EXTENDS Integers, Sequences, FiniteSets, TLC

VARIABLES
    picked,     \* which awemes user_all_aweme_data.json holds (never changes)
    fs,         \* the file system: path -> [body, atime, mtime]
    idx,        \* number of awemes whose loop body has started in this run
    todo,       \* calls the current aweme still has to make, in order
    pc,         \* "loop" | "connected" | "streaming" | "renamed" |
                \* "finished" | "crashed" | "killed"
    cur,        \* the download call in flight (pc in connected..renamed),
                \* whether its temporary file was there when it was made, and
                \* the chunks iter_bytes has yielded
    last,       \* the download call that returned last and its result, until
                \* the next one is in flight
    nRequests,  \* httpx.stream calls issued in this run
    nResolved,  \* download calls of this run that have returned
    nFailed,    \* those of them that ended in an except clause or a bad status
    nWarnings,  \* "Skipping image with missing URL list" lines printed in this run
    changed,    \* this run has changed the file system
    prev,       \* the previous run on this directory: "none", "killed", or it
                \* ended with a call that "failed" or without ("clean")
    record,     \* ClassifySpec: the aweme whose loop body is looked at alone
    tasks,      \* ClassifySpec: the calls and warnings that loop body makes
    cpc,        \* ClassifySpec: "read" | "classified" ("off" under Spec)
    dirs,       \* ClassifySpec: directories found in the save directory
    made        \* ClassifySpec: where the files of the calls come to lie

\* the variables of the run of process_data
rvars == <<picked, fs, idx, todo, pc, cur, last,
           nRequests, nResolved, nFailed, nWarnings, changed, prev>>

\* the variables of the classification of one aweme
cvars == <<record, tasks, cpc, dirs, made>>

vars == <<rvars, cvars>>

---------------------------------------------------------------------------
(* Bounds of the model. *)

\* length of the aweme_list of the manifest
MaxRecords == 2
\* chunks response.iter_bytes yields for one body
NumChunks == 2
\* length of the "images" list of an aweme of ClassifySpec
MaxImages == 2
\* zeros between the first and the last digit of a timestamp of StampSpec
MaxZeros == 10

---------------------------------------------------------------------------
(* Characters and strings. *)

Digit == {"0","1","2","3","4","5","6","7","8","9"}
Lower == {"a","b","c","d","e","f","g","h","i","j","k","l","m",
          "n","o","p","q","r","s","t","u","v","w","x","y","z"}
Upper == {"A","B","C","D","E","F","G","H","I","J","K","L","M",
          "N","O","P","Q","R","S","T","U","V","W","X","Y","Z"}

\* dict.get(key, default)
Get(d, key, default) == IF key \in DOMAIN d THEN d[key] ELSE default

\* {} as a default of dict.get
EmptyDict == <<>>

\* the JSON value null (None) where an object is expected: it has no .get
Null == [json |-> "null"]

\* index of the last occurrence of character c in s, 0 when there is none
RECURSIVE RFindFrom(_, _, _)
RFindFrom(s, c, i) ==
    IF i = 0 THEN 0
    ELSE IF s[i] = c THEN i
    ELSE RFindFrom(s, c, i - 1)

RFind(s, c) == RFindFrom(s, c, Len(s))

\* the whole uri is the suffix
LastSegmentWhole(s) == s

\* s.split("/")[-1]
LastSegment(s) == SubSeq(s, RFind(s, "/") + 1, Len(s))

\* re.search in place of re.fullmatch: one letter or digit is enough
is_valid_video_id_search(value) ==
    \E i \in 1..Len(value) : value[i] \in (Digit \cup Lower \cup Upper)

\* re.fullmatch(r"[a-zA-Z0-9]+", value): the manifests of the model hold
\* strings at every "uri", so isinstance(value, str) is true
is_valid_video_id(value) ==
    /\ Len(value) >= 1
    /\ \A i \in 1..Len(value) : value[i] \in (Digit \cup Lower \cup Upper)

\* timestamp >= 1e10: 1e10 itself counts as milliseconds
AtLeast1e10(ts) == Len(ts) >= 11

\* timestamp > 1e10, for a non-negative integer written in decimal digits
\* without leading zeros
OneE10 == <<"1","0","0","0","0","0","0","0","0","0","0">>
GreaterThan1e10(ts) ==
    \/ Len(ts) > Len(OneE10)
    \/ /\ Len(ts) = Len(OneE10)
       /\ ts # OneE10

\* timestamp_to_str: a value above 1e10 is divided by 1000; strftime keeps
\* whole seconds only.  The local-time rendering YYYYMMDDHHMMSS of a number
\* of whole seconds is written here as the decimal digits of that number.
timestamp_to_str(timestamp) ==
    IF GreaterThan1e10(timestamp)
    THEN SubSeq(timestamp, 1, Len(timestamp) - 3)
    ELSE timestamp

\* Path(save_dir) of the example usage, shortened
save_dir == <<"/","d">>

\* self.save_dir / name
PathJoin(dir, name) == dir \o <<"/">> \o name

\* PurePath.with_suffix(suffix): the suffix of the final path component is
\* what follows its last dot, unless that dot is the first or the last
\* character of the component; it is replaced, or the new one is appended
with_suffix(path, suffix) ==
    LET slash == RFind(path, "/")
        name  == SubSeq(path, slash + 1, Len(path))
        dot   == RFind(name, ".")
        stem  == IF 1 < dot /\ dot < Len(name)
                 THEN SubSeq(name, 1, dot - 1) ELSE name
    IN  SubSeq(path, 1, slash) \o stem \o suffix

\* the body is written under the final name
TempPathIsFinal(save_path) == save_path

\* temp_path = save_path.with_suffix(".part")
TempPath(save_path) == with_suffix(save_path, <<".","p","a","r","t">>)

Douyin == <<"d","o","u","y","i","n">>
Unknown == <<"u","n","k","n","o","w","n">>

\* the name is made unique with the number of awemes seen so far
FileNameNumbered(user_id, created_time, suffix, ext) ==
    Douyin \o <<"_">> \o user_id \o <<"_">> \o timestamp_to_str(created_time)
           \o <<"_">> \o suffix \o <<"-", <<"0","1","2","3","4","5">>[idx + 1]>>
           \o <<".">> \o ext

\* f"douyin_{user_id}_{self.timestamp_to_str(created_time)}_{suffix}.{ext}"
FileName(user_id, created_time, suffix, ext) ==
    Douyin \o <<"_">> \o user_id \o <<"_">> \o timestamp_to_str(created_time)
           \o <<"_">> \o suffix \o <<".">> \o ext

---------------------------------------------------------------------------
(* Classification: the calls one aweme's loop body makes. *)

\* one call of _download_if_not_exists(url, save_path, created_time)
Call(kind, url, save_path, created_time) ==
    [op |-> "download", kind |-> kind, url |-> url,
     save_path |-> save_path, created_time |-> created_time]

\* an IndexError raised by [0] on an empty url_list: nothing catches it
Raise == [op |-> "raise", kind |-> "IndexError", url |-> "",
          save_path |-> <<>>, created_time |-> <<>>]

\* an AttributeError raised by .get on None: nothing catches it either
AttributeError == [op |-> "raise", kind |-> "AttributeError", url |-> "",
                   save_path |-> <<>>, created_time |-> <<>>]

\* the line _process_images prints when it passes over an image without urls
Warning == [op |-> "warn", kind |-> "Warning", url |-> "",
            save_path |-> <<>>, created_time |-> <<>>]

\* x.get("video", {}).get("play_addr", {})
PlayAddr(x) == Get(Get(x, "video", EmptyDict), "play_addr", EmptyDict)

download_video(video_url, user_id, created_time, video_id) ==
    <<Call("Video", video_url,
           PathJoin(save_dir, FileName(user_id, created_time, video_id,
                                       <<"m","p","4">>)),
           created_time)>>

download_image(image_url, user_id, created_time, filename_suffix) ==
    <<Call("Image", image_url,
           PathJoin(save_dir, FileName(user_id, created_time, filename_suffix,
                                       <<"j","p","e","g">>)),
           created_time)>>

\* _download_live_photo: url_list[0] is evaluated first and raises on an
\* empty list; otherwise the clip, then the still under the same identifier
download_live_photo(image_item, user_id, created_time, live_photo_uri, img_url) ==
    LET url_list == Get(PlayAddr(image_item), "url_list", <<"">>)
    IN  IF url_list = <<>> THEN <<Raise>>
        ELSE <<Call("LivePhotoClip", url_list[1],
                    PathJoin(save_dir, FileName(user_id, created_time,
                                                live_photo_uri, <<"m","o","v">>)),
                    created_time)>>
             \o download_image(img_url, user_id, created_time, live_photo_uri)

\* the test of line 193 is missing: [-1] on an empty url_list raises
process_image_unchecked(image_item, user_id, created_time) ==
    LET url_list       == Get(image_item, "url_list", <<>>)
        live_photo_uri == Get(PlayAddr(image_item), "uri", <<>>)
        img_url        == url_list[Len(url_list)]
    IN  IF url_list = <<>> THEN <<Raise>>
        ELSE IF live_photo_uri # <<>> /\ is_valid_video_id(live_photo_uri)
        THEN download_live_photo(image_item, user_id, created_time,
                                 live_photo_uri, img_url)
        ELSE download_image(img_url, user_id, created_time,
                            LastSegment(Get(image_item, "uri", <<>>)))

\* the body of the loop of _process_images for one image_item
process_image(image_item, user_id, created_time) ==
    LET url_list       == Get(image_item, "url_list", <<>>)
        live_photo_uri == Get(PlayAddr(image_item), "uri", <<>>)
        img_url        == url_list[Len(url_list)]
    IN  IF url_list = <<>> THEN <<Warning>>
        ELSE IF live_photo_uri # <<>> /\ is_valid_video_id(live_photo_uri)
        THEN download_live_photo(image_item, user_id, created_time,
                                 live_photo_uri, img_url)
        ELSE download_image(img_url, user_id, created_time,
                            LastSegment(Get(image_item, "uri", <<>>)))

\* a sequence of calls and warnings, cut after its first raise
RECURSIVE UntilRaise(_)
UntilRaise(calls) ==
    IF calls = <<>> THEN <<>>
    ELSE IF calls[1].op = "raise" THEN <<calls[1]>>
    ELSE <<calls[1]>> \o UntilRaise(Tail(calls))

\* _process_images: the images in order
RECURSIVE process_images_from(_, _, _)
process_images_from(images, user_id, created_time) ==
    IF images = <<>> THEN <<>>
    ELSE process_image(images[1], user_id, created_time)
         \o process_images_from(Tail(images), user_id, created_time)

process_images(aweme, user_id, created_time) ==
    UntilRaise(process_images_from(Get(aweme, "images", <<>>),
                                   user_id, created_time))

\* the body of the inner loop of process_data for one aweme.  A chain of
\* .get calls raises when "author" or "video" holds null.  video_url is
\* computed before the identifier is looked at, so an empty url_list raises
\* whatever the identifier is.
process_aweme(aweme) ==
    LET user_id      == Get(Get(aweme, "author", EmptyDict), "uid", Unknown)
        created_time == Get(aweme, "create_time", <<"0">>)
        video_id     == Get(PlayAddr(aweme), "uri", <<>>)
        url_list     == Get(PlayAddr(aweme), "url_list", <<"">>)
    IN  IF \/ Get(aweme, "author", EmptyDict) = Null
           \/ Get(aweme, "video", EmptyDict) = Null
        THEN <<AttributeError>>
        ELSE IF url_list = <<>> THEN <<Raise>>
        ELSE IF is_valid_video_id(video_id)
        THEN download_video(url_list[1], user_id, created_time, video_id)
        ELSE process_images(aweme, user_id, created_time)

\* the awemes the two nested loops of process_data visit, in order; a page
\* without aweme_list (or with an empty one) is passed over
RECURSIVE Records(_)
Records(pages) ==
    IF pages = <<>> THEN <<>>
    ELSE Get(pages[1], "aweme_list", <<>>) \o Records(Tail(pages))

---------------------------------------------------------------------------
(* The manifests of the model. *)

Uid1 == <<"u","1">>
Seconds == <<"1","7","0","0","0","0","0","0","0","0">>
Millis == Seconds \o <<"0","0","0">>

\* a video post
AwemeVideo ==
    [author |-> [uid |-> Uid1], create_time |-> Seconds,
     video |-> [play_addr |-> [uri |-> <<"v","1">>,
                               url_list |-> <<"http://x/v1.mp4">>]]]

\* a video post whose url_list is empty
AwemeVideoNoUrl ==
    [author |-> [uid |-> Uid1], create_time |-> Seconds,
     video |-> [play_addr |-> [uri |-> <<"v","2">>, url_list |-> <<>>]]]

\* one live photo; the aweme has no "video" key
LiveImage ==
    [uri |-> <<"a","/","b","1",".","j","p","g">>,
     url_list |-> <<"http://x/b1.low.jpg", "http://x/b1.jpg">>,
     video |-> [play_addr |-> [uri |-> <<"A","B","C","1">>,
                               url_list |-> <<"http://x/abc.mov">>]]]
AwemeLive ==
    [author |-> [uid |-> Uid1], create_time |-> Millis,
     images |-> <<LiveImage>>]

\* the same live photo under an empty video identifier with an empty
\* url_list (the record of the specification's example)
AwemeLiveEmptyVideo ==
    [author |-> [uid |-> Uid1], create_time |-> Millis,
     video |-> [play_addr |-> [uri |-> <<>>, url_list |-> <<>>]],
     images |-> <<LiveImage>>]

\* an image without urls, then a plain image, under a video identifier that
\* is a path, with no author
AwemeImage ==
    [create_time |-> Seconds,
     video |-> [play_addr |-> [uri |-> <<"p","/","q">>,
                               url_list |-> <<"http://x/audio.mp3">>]],
     images |-> << [uri |-> <<"a","/","c","1",".","j","p","g">>],
                   [uri |-> <<"a","/","c","2",".","j","p","g">>,
                    url_list |-> <<"http://x/c2.low.jpg", "http://x/c2.jpg">>] >>]

\* an image post whose "video" holds null
AwemeNullVideo ==
    [author |-> [uid |-> Uid1], create_time |-> Seconds,
     video |-> Null,
     images |-> << [uri |-> <<"a","/","f","4">>,
                    url_list |-> <<"http://x/f4.jpg">>] >>]

\* an image post whose sole image has no urls
AwemeNoUrls ==
    [author |-> [uid |-> Uid1], create_time |-> Seconds,
     images |-> << [uri |-> <<"a","/","e","3">>, url_list |-> <<>>] >>]

Pool == <<AwemeVideo, AwemeVideoNoUrl, AwemeLive, AwemeLiveEmptyVideo,
          AwemeImage, AwemeNoUrls, AwemeNullVideo>>

\* the sequences of pool indices of length 1..MaxRecords
IndexSeqs == UNION {[1..n -> 1..Len(Pool)] : n \in 1..MaxRecords}

\* a manifest: one page without awemes, then one page with the chosen awemes
ManifestOf(s) ==
    << [aweme_list |-> <<>>], [aweme_list |-> [i \in 1..Len(s) |-> Pool[s[i]]]] >>

\* json.loads(merged_data_path.read_text())
manifest == ManifestOf(picked)

---------------------------------------------------------------------------
(* The file system and the server. *)

\* the time a file carries after it is written and before os.utime
WallClock == <<"n","o","w">>

EmptyFs == [p \in {} |-> <<>>]

\* the body the server streams for url, in chunks
Body(url) == [i \in 1..NumChunks |-> <<url, i>>]

\* open(path, "ab"): what the file holds is kept
OpenAppend(files, path) ==
    [q \in DOMAIN files \cup {path} |->
        IF q = path /\ path \notin DOMAIN files
        THEN [body |-> <<>>, atime |-> WallClock, mtime |-> WallClock]
        ELSE files[q]]

\* open(path, "wb"): creates the file or truncates it
OpenWb(files, path) ==
    [q \in DOMAIN files \cup {path} |->
        IF q = path THEN [body |-> <<>>, atime |-> WallClock, mtime |-> WallClock]
        ELSE files[q]]

\* file.write(chunk)
WriteTo(files, path, chunk) ==
    [files EXCEPT ![path].body = Append(@, chunk), ![path].mtime = WallClock]

\* Path.unlink
Unlink(files, path) == [q \in DOMAIN files \ {path} |-> files[q]]

\* os.rename(src, dst): dst is replaced if it exists
Rename(files, src, dst) ==
    [q \in (DOMAIN files \ {src}) \cup {dst} |->
        IF q = dst THEN files[src] ELSE files[q]]

\* only the modification time is set
SetTimesMtimeOnly(files, path, atime, mtime) ==
    [files EXCEPT ![path].mtime = mtime]

\* os.utime(path, (atime, mtime))
SetTimes(files, path, atime, mtime) ==
    [files EXCEPT ![path].atime = atime, ![path].mtime = mtime]

\* the temporary path is asked for instead of the final one
AlreadyDownloadedAsksPart(files, save_path) == TempPath(save_path) \in DOMAIN files

\* nothing is ever found in place
AlreadyDownloadedNever(files, save_path) == FALSE

\* a temporary file counts as the download
AlreadyDownloadedOrPart(files, save_path) ==
    save_path \in DOMAIN files \/ TempPath(save_path) \in DOMAIN files

\* save_path.exists(), as download and _download_if_not_exists ask it
AlreadyDownloaded(files, save_path) == save_path \in DOMAIN files

\* the except clauses leave the temporary file
CleanUpNothing(files, temp_path) == files

\* the two except clauses of download: if temp_path.exists(): temp_path.unlink()
CleanUp(files, temp_path) ==
    IF temp_path \in DOMAIN files THEN Unlink(files, temp_path) ELSE files

\* where control is once the response is there: download calls
\* _download_file_with_progress (line 69) and waits for it
AfterConnectDetached == "loop"

AfterConnect == "connected"

\* the error of os.utime is not caught and leaves process_data
AfterDownloadUtimeAborts(result) == IF result = "Utime" THEN "crashed" ELSE "loop"

\* where control is after download returns or swallows an exception: back
\* in the loop of process_data
AfterDownload(result) == "loop"

Failures == {"Network", "HttpStatus", "Incomplete", "Utime"}

NoCall == [op |-> "none", kind |-> "", url |-> "",
           save_path |-> <<>>, created_time |-> <<>>]

---------------------------------------------------------------------------
(* The state machine. *)

Init ==
    /\ picked \in IndexSeqs
    /\ fs = EmptyFs
    /\ idx = 0
    /\ todo = <<>>
    /\ pc = "loop"
    /\ cur = [call |-> NoCall, stale |-> FALSE, sent |-> 0]
    /\ last = [call |-> NoCall, result |-> "none"]
    /\ nRequests = 0
    /\ nResolved = 0
    /\ nFailed = 0
    /\ nWarnings = 0
    /\ changed = FALSE
    /\ prev = "none"
    /\ record = EmptyDict
    /\ tasks = <<>>
    /\ cpc = "off"
    /\ dirs = {}
    /\ made = {}

\* a download call that failed stays first among the calls to make
ResolveRetrying(call, result) ==
    /\ last' = [call |-> call, result |-> result]
    /\ todo' = IF result \in Failures THEN todo ELSE Tail(todo)
    /\ pc' = AfterDownload(result)
    /\ nResolved' = nResolved + 1
    /\ nFailed' = nFailed + (IF result \in Failures THEN 1 ELSE 0)
    /\ changed' = (changed \/ fs' # fs)
    /\ cur' = [call |-> NoCall, stale |-> FALSE, sent |-> 0]
    /\ UNCHANGED <<picked, idx, nWarnings, prev, cvars>>

\* a download call returns: its result is recorded and the loop goes on
\* (the action that uses it says what fs' is, before it)
Resolve(call, result) ==
    /\ last' = [call |-> call, result |-> result]
    /\ todo' = Tail(todo)
    /\ pc' = AfterDownload(result)
    /\ nResolved' = nResolved + 1
    /\ nFailed' = nFailed + (IF result \in Failures THEN 1 ELSE 0)
    /\ changed' = (changed \/ fs' # fs)
    /\ cur' = [call |-> NoCall, stale |-> FALSE, sent |-> 0]
    /\ UNCHANGED <<picked, idx, nWarnings, prev, cvars>>

\* process_data, lines 167-180: the loop body of the next aweme starts
NextRecord ==
    /\ pc = "loop"
    /\ todo = <<>>
    /\ idx < Len(Records(manifest))
    /\ idx' = idx + 1
    /\ todo' = process_aweme(Records(manifest)[idx + 1])
    /\ UNCHANGED <<picked, fs, pc, cur, last, nRequests, nResolved,
                   nFailed, nWarnings, changed, prev, cvars>>

\* an IndexError leaves process_data: nothing catches it
Crash ==
    /\ pc = "loop"
    /\ todo # <<>>
    /\ todo[1].op = "raise"
    /\ pc' = "crashed"
    /\ UNCHANGED <<picked, fs, idx, todo, cur, last, nRequests,
                   nResolved, nFailed, nWarnings, changed, prev, cvars>>

\* process_data, line 182: the loops are over
Finish ==
    /\ pc = "loop"
    /\ todo = <<>>
    /\ idx = Len(Records(manifest))
    /\ pc' = "finished"
    /\ UNCHANGED <<picked, fs, idx, todo, cur, last, nRequests,
                   nResolved, nFailed, nWarnings, changed, prev, cvars>>

\* _process_images, lines 193-195: the image has no urls; the line is
\* printed and the loop goes to the next image
Warn ==
    /\ pc = "loop"
    /\ todo # <<>>
    /\ todo[1].op = "warn"
    /\ todo' = Tail(todo)
    /\ nWarnings' = nWarnings + 1
    /\ UNCHANGED <<picked, fs, idx, pc, cur, last, nRequests,
                   nResolved, nFailed, changed, prev, cvars>>

\* _download_if_not_exists and download, lines 150 and 56-58: the file is there
SkipExisting ==
    /\ pc = "loop"
    /\ todo # <<>>
    /\ todo[1].op = "download"
    /\ AlreadyDownloaded(fs, todo[1].save_path)
    /\ fs' = fs
    /\ Resolve(todo[1], "Skipped")
    /\ UNCHANGED nRequests

\* download, lines 60-68 and 73-77: httpx.stream is entered.  It raises a
\* RequestError (always so for a url without a scheme), or answers with a
\* status that is not 200, or with 200.
Request ==
    /\ pc = "loop"
    /\ todo # <<>>
    /\ todo[1].op = "download"
    /\ ~AlreadyDownloaded(fs, todo[1].save_path)
    /\ nRequests' = nRequests + 1
    /\ LET call      == todo[1]
           temp_path == TempPath(call.save_path)
       IN  \/ /\ fs' = CleanUp(fs, temp_path)
              /\ Resolve(call, "Network")
           \/ /\ call.url # ""
              /\ fs' = fs
              /\ Resolve(call, "HttpStatus")
           \/ /\ call.url # ""
              /\ pc' = AfterConnect
              /\ cur' = [call |-> call, stale |-> temp_path \in DOMAIN fs,
                          sent |-> 0]
              /\ last' = [call |-> NoCall, result |-> "none"]
              /\ UNCHANGED <<picked, fs, idx, todo,
                             nResolved, nFailed, nWarnings, changed, prev, cvars>>

\* _download_file_with_progress, line 100: open(temp_path, "wb")
OpenTemp ==
    /\ pc = "connected"
    /\ fs' = OpenWb(fs, TempPath(cur.call.save_path))
    /\ pc' = "streaming"
    /\ changed' = (changed \/ fs' # fs)
    /\ UNCHANGED <<picked, idx, todo, cur, last, nRequests,
                   nResolved, nFailed, nWarnings, prev, cvars>>

\* lines 101-102: the next chunk of the body is written to the temporary file
WriteChunk ==
    /\ pc = "streaming"
    /\ cur.sent < NumChunks
    /\ fs' = WriteTo(fs, TempPath(cur.call.save_path),
                     Body(cur.call.url)[cur.sent + 1])
    /\ cur' = [cur EXCEPT !.sent = @ + 1]
    /\ changed' = (changed \/ fs' # fs)
    /\ UNCHANGED <<picked, idx, todo, pc, last, nRequests,
                   nResolved, nFailed, nWarnings, prev, cvars>>

\* iter_bytes raises (the connection drops) or file.write raises (the disk):
\* the file is closed and one of the except clauses, lines 73-82, runs
StreamError ==
    /\ pc = "streaming"
    /\ fs' = CleanUp(fs, TempPath(cur.call.save_path))
    /\ Resolve(cur.call, "Incomplete")
    /\ UNCHANGED nRequests

\* line 110: the stream is over, os.rename(temp_path, save_path)
RenameTemp ==
    /\ pc = "streaming"
    /\ cur.sent = NumChunks
    /\ fs' = Rename(fs, TempPath(cur.call.save_path), cur.call.save_path)
    /\ pc' = "renamed"
    /\ changed' = (changed \/ fs' # fs)
    /\ UNCHANGED <<picked, idx, todo, cur, last, nRequests,
                   nResolved, nFailed, nWarnings, prev, cvars>>

\* lines 111-112: os.utime(save_path, (created_time, created_time))
Utime ==
    /\ pc = "renamed"
    /\ fs' = SetTimes(fs, cur.call.save_path,
                      cur.call.created_time, cur.call.created_time)
    /\ Resolve(cur.call, "Done")
    /\ UNCHANGED nRequests

\* os.utime raises: the except clause of lines 78-82 runs
UtimeError ==
    /\ pc = "renamed"
    /\ fs' = CleanUp(fs, TempPath(cur.call.save_path))
    /\ Resolve(cur.call, "Utime")
    /\ UNCHANGED nRequests

\* the process is killed in the middle of a stream (a KeyboardInterrupt is
\* no Exception, so neither except clause runs): the temporary file stays,
\* with a part of the body
Kill ==
    /\ pc = "streaming"
    /\ Len(fs[TempPath(cur.call.save_path)].body) \in 1..(NumChunks - 1)
    /\ pc' = "killed"
    /\ UNCHANGED <<picked, fs, idx, todo, cur, last, nRequests,
                   nResolved, nFailed, nWarnings, changed, prev, cvars>>

\* the script is started again on the same manifest and directory
Restart ==
    /\ pc \in {"finished", "crashed", "killed"}
    /\ changed' = FALSE
    /\ prev' = IF pc = "killed" THEN "killed"
               ELSE IF nFailed > 0 THEN "failed" ELSE "clean"
    /\ idx' = 0
    /\ todo' = <<>>
    /\ pc' = "loop"
    /\ cur' = [call |-> NoCall, stale |-> FALSE, sent |-> 0]
    /\ last' = [call |-> NoCall, result |-> "none"]
    /\ nRequests' = 0
    /\ nResolved' = 0
    /\ nFailed' = 0
    /\ nWarnings' = 0
    /\ UNCHANGED <<picked, fs, cvars>>

Next ==
    \/ NextRecord
    \/ Crash
    \/ Finish
    \/ Warn
    \/ SkipExisting
    \/ Request
    \/ OpenTemp
    \/ WriteChunk
    \/ StreamError
    \/ RenameTemp
    \/ Utime
    \/ UtimeError
    \/ Kill
    \/ Restart

Spec == Init /\ [][Next]_vars

---------------------------------------------------------------------------
(* The loop body of one aweme, looked at alone, over more shapes of aweme  *)
(* than the runs above hold, and where the operating system puts the files *)
(* of its calls.                                                           *)

\* author ids with a path separator in them
UidSlash == <<"x","/","b">>
UidUp == <<"x","/",".",".","/",".",".","/","e">>

\* what "author" holds, if it is there
Authors ==
    { <<>>, <<[uid |-> Uid1]>>, <<[uid |-> UidSlash]>>, <<[uid |-> UidUp]>>,
      <<Null>> }

\* what "video" holds, if it is there
Videos ==
    { <<>>,
      <<[play_addr |-> [uri |-> <<"v","1">>, url_list |-> <<"http://x/v1.mp4">>]]>>,
      <<[play_addr |-> [uri |-> <<"v","2">>, url_list |-> <<>>]]>>,
      <<[play_addr |-> [uri |-> <<"v","3">>]]>>,
      <<[play_addr |-> [uri |-> <<"p","/","q">>, url_list |-> <<"http://x/audio.mp3">>]]>>,
      <<[play_addr |-> [uri |-> <<>>, url_list |-> <<>>]]>>,
      <<Null>> }

\* two images whose uris end in the same segment, an image without urls, a
\* live photo, a live photo whose url_list is empty, and an image whose
\* live-photo identifier is no asset identifier
ImagePool ==
    << [uri |-> <<"a","/","c","2",".","j","p","g">>,
        url_list |-> <<"http://x/c2.low.jpg", "http://x/c2.jpg">>],
       [uri |-> <<"b","/","c","2",".","j","p","g">>,
        url_list |-> <<"http://x/other.jpg">>],
       [uri |-> <<"a","/","e","3">>, url_list |-> <<>>],
       LiveImage,
       [uri |-> <<"a","/","g","5">>,
        url_list |-> <<"http://x/g5.jpg">>,
        video |-> [play_addr |-> [uri |-> <<"G","5">>, url_list |-> <<>>]]],
       [uri |-> <<"h","/","i","/","k","6">>,
        url_list |-> <<"http://x/k6.low.jpg", "http://x/k6.jpg">>,
        video |-> [play_addr |-> [uri |-> <<"L","-","9">>,
                                  url_list |-> <<"http://x/l9.mov">>]]] >>

\* the image lists of length 0..MaxImages
ImageLists ==
    { [i \in 1..Len(s) |-> ImagePool[s[i]]] :
        s \in UNION {[1..n -> 1..Len(ImagePool)] : n \in 0..MaxImages} }

\* the JSON object of an aweme with these fields
MkAweme(author, create_time, video, images) ==
    [k \in {"create_time", "images"}
            \cup (IF author = <<>> THEN {} ELSE {"author"})
            \cup (IF video = <<>> THEN {} ELSE {"video"}) |->
        CASE k = "author"      -> author[1]
          [] k = "create_time" -> create_time
          [] k = "video"       -> video[1]
          [] k = "images"      -> images]

RecordSpace ==
    { MkAweme(a, t, v, ims) :
        a \in Authors, t \in {Seconds, Millis}, v \in Videos, ims \in ImageLists }

\* the parts of a path between its separators
RECURSIVE Components(_)
Components(path) ==
    LET slash == RFind(path, "/")
        name  == SubSeq(path, slash + 1, Len(path))
    IN  (IF slash = 0 THEN <<>> ELSE Components(SubSeq(path, 1, slash - 1)))
        \o (IF name = <<>> THEN <<>> ELSE <<name>>)

\* the absolute path with these parts
RECURSIVE JoinPath(_)
JoinPath(parts) ==
    IF parts = <<>> THEN <<>>
    ELSE <<"/">> \o parts[1] \o JoinPath(Tail(parts))

\* a directory the save directory may hold without this program having
\* made it
ForeignDirs == { PathJoin(save_dir, Douyin \o <<"_","x">>) }

\* the directories there are: the save directory (made at lines 17-20), the
\* directories above it, and those found in it
Directories(found) ==
    { JoinPath(SubSeq(Components(save_dir), 1, n)) :
        n \in 0..Len(Components(save_dir)) } \cup found

NoEntry == <<"E","N","O","E","N","T">>

\* the operating system walks the directories of a path: ".." leads to the
\* directory above, any other name must be a directory that is there
RECURSIVE Walk(_, _, _)
Walk(parts, at, found) ==
    IF Len(parts) = 1 THEN JoinPath(Append(at, parts[1]))
    ELSE IF parts[1] = <<".",".">>
    THEN Walk(Tail(parts), SubSeq(at, 1, Len(at) - 1), found)
    ELSE IF JoinPath(Append(at, parts[1])) \in Directories(found)
    THEN Walk(Tail(parts), Append(at, parts[1]), found)
    ELSE NoEntry

\* where open, os.rename and unlink find the file of a path, or NoEntry
Locate(found, path) == Walk(Components(path), <<>>, found)

ClassifyInit ==
    /\ record \in RecordSpace
    /\ tasks = <<>>
    /\ cpc = "read"
    /\ dirs \in SUBSET ForeignDirs
    /\ made = {}
    /\ picked = <<1>>
    /\ fs = EmptyFs
    /\ idx = 0
    /\ todo = <<>>
    /\ pc = "off"
    /\ cur = [call |-> NoCall, stale |-> FALSE, sent |-> 0]
    /\ last = [call |-> NoCall, result |-> "none"]
    /\ nRequests = 0
    /\ nResolved = 0
    /\ nFailed = 0
    /\ nWarnings = 0
    /\ changed = FALSE
    /\ prev = "none"

\* process_data, lines 167-180, for the one aweme
Classify ==
    /\ cpc = "read"
    /\ tasks' = process_aweme(record)
    /\ cpc' = "classified"
    /\ UNCHANGED <<record, dirs, made, rvars>>

\* download and _download_file_with_progress for one of the calls: the
\* temporary file is opened (line 100), renamed to the destination (line
\* 110) or unlinked (lines 77, 82), where the operating system finds them;
\* open raises FileNotFoundError when a directory of the path is not there
Touch ==
    /\ cpc = "classified"
    /\ \E k \in 1..Len(tasks) :
          /\ tasks[k].op = "download"
          /\ Locate(dirs, TempPath(tasks[k].save_path)) # NoEntry
          /\ made' = made \cup { Locate(dirs, TempPath(tasks[k].save_path)),
                                  Locate(dirs, tasks[k].save_path) }
    /\ UNCHANGED <<record, tasks, cpc, dirs, rvars>>

ClassifyNext ==
    \/ Classify
    \/ Touch

ClassifySpec == ClassifyInit /\ [][ClassifyNext]_vars

---------------------------------------------------------------------------
(* timestamp_to_str looked at alone, on timestamps around 1e10 and on the   *)
(* thousandfold of each.                                                   *)

Zeros(n) == [i \in 1..n |-> "0"]

\* the create_time values: 0, and 1, 17 or 9 followed by zeros and a last
\* digit (1e7, 1e10 and 1e10 + 7 are among them)
Stamps ==
    { <<"0">> } \cup
    { lead \o Zeros(n) \o unit :
        lead \in { <<"1">>, <<"1","7">>, <<"9">> },
        n \in 5..MaxZeros,
        unit \in { <<"0">>, <<"7">>, <<"9">> } }

\* 1000 * timestamp, in decimal digits
Times1000(ts) == IF ts = <<"0">> THEN ts ELSE ts \o <<"0","0","0">>

StampInit ==
    /\ record \in { [create_time |-> ts] : ts \in Stamps }
    /\ tasks = <<>>
    /\ cpc = "stamp"
    /\ dirs = {}
    /\ made = {}
    /\ picked = <<1>>
    /\ fs = EmptyFs
    /\ idx = 0
    /\ todo = <<>>
    /\ pc = "off"
    /\ cur = [call |-> NoCall, stale |-> FALSE, sent |-> 0]
    /\ last = [call |-> NoCall, result |-> "none"]
    /\ nRequests = 0
    /\ nResolved = 0
    /\ nFailed = 0
    /\ nWarnings = 0
    /\ changed = FALSE
    /\ prev = "none"

\* timestamp_to_str(created_time), as lines 123, 137 and 227 call it
FormatStamp ==
    /\ cpc = "stamp"
    /\ tasks = <<>>
    /\ tasks' = <<timestamp_to_str(record.create_time)>>
    /\ UNCHANGED <<record, cpc, dirs, made, rvars>>

\* timestamp_to_str(1000 * created_time): the same instant in milliseconds
FormatThousandfold ==
    /\ cpc = "stamp"
    /\ Len(tasks) = 1
    /\ tasks' = Append(tasks, timestamp_to_str(Times1000(record.create_time)))
    /\ UNCHANGED <<record, cpc, dirs, made, rvars>>

StampNext ==
    \/ FormatStamp
    \/ FormatThousandfold

StampSpec == StampInit /\ [][StampNext]_vars

---------------------------------------------------------------------------
(* What the claims speak of. *)

\* no download call is in flight
Stable == pc \in {"loop", "finished", "crashed"}

\* the download calls the awemes of the manifest make
RECURSIVE CallsOf(_)
CallsOf(awemes) ==
    IF awemes = <<>> THEN <<>>
    ELSE SelectSeq(process_aweme(awemes[1]), LAMBDA c : c.op = "download")
         \o CallsOf(Tail(awemes))

\* the image has no urls
NoUrls(image_item) == Get(image_item, "url_list", <<>>) = <<>>

\* the loop body of the aweme reaches _process_images
InspectsImages(aweme) ==
    /\ Get(aweme, "author", EmptyDict) # Null
    /\ Get(aweme, "video", EmptyDict) # Null
    /\ Get(PlayAddr(aweme), "url_list", <<"">>) # <<>>
    /\ ~is_valid_video_id(Get(PlayAddr(aweme), "uri", <<>>))

\* the warnings due for the awemes of the manifest
RECURSIVE WarningsDue(_)
WarningsDue(awemes) ==
    IF awemes = <<>> THEN 0
    ELSE (IF InspectsImages(awemes[1])
          THEN Len(SelectSeq(Get(awemes[1], "images", <<>>), NoUrls))
          ELSE 0)
         + WarningsDue(Tail(awemes))

\* for every manifest of the model: its awemes, what the loop body of each
\* makes, its download calls in order and as a set, their destination and
\* temporary paths, and the warnings due (@@ has TLC compute the table once
\* instead of at every use)
CallTable ==
    <<>> @@
    [s \in IndexSeqs |->
        LET awemes == Records(ManifestOf(s))
            calls  == CallsOf(awemes)
            set    == {calls[i] : i \in 1..Len(calls)}
        IN  [awemes   |-> awemes,
             outs     |-> [i \in 1..Len(awemes) |-> process_aweme(awemes[i])],
             calls    |-> calls,
             set      |-> set,
             dests    |-> {c.save_path : c \in set},
             temps    |-> {TempPath(c.save_path) : c \in set},
             warnings |-> WarningsDue(awemes)]]

Awemes == CallTable[picked].awemes
Outs == CallTable[picked].outs

AllCalls == CallTable[picked].calls
CallSet == CallTable[picked].set
Dests == CallTable[picked].dests
Temps == CallTable[picked].temps

\* the temporary path of the call that returned last
LastTemp == TempPath(last.call.save_path)

---------------------------------------------------------------------------
(* The claims. *)

\* C1: in every reachable state a file under the destination path of a call
\* holds the complete body of a call with that destination, and every other
\* file (a partial body among them) lies under the temporary path of a call,
\* which is no call's destination.
C1_NoPartialAtDestination ==
    \A p \in DOMAIN fs :
        \/ \E c \in CallSet : c.save_path = p /\ fs[p].body = Body(c.url)
        \/ p \in Temps \ Dests

\* a partial body lies under the temporary name; the destination is absent
C1_Witness ==
    /\ pc = "streaming"
    /\ Len(fs[TempPath(cur.call.save_path)].body) \in 1..(NumChunks - 1)
    /\ cur.call.save_path \notin DOMAIN fs

\* C2: a download call whose destination exists when it is made returns
\* Skipped in that very step; no request is issued and no file is touched.
C2_SkipWithoutRequest ==
    [][ ( /\ pc = "loop"
          /\ todo # <<>>
          /\ todo[1].op = "download"
          /\ todo[1].save_path \in DOMAIN fs )
        => ( /\ last' = [call |-> todo[1], result |-> "Skipped"]
             /\ nRequests' = nRequests
             /\ fs' = fs
             /\ pc' = "loop" ) ]_vars

\* a call has returned Skipped on a file left by an earlier run
C2_Witness ==
    /\ prev # "none"
    /\ last.result = "Skipped"
    /\ last.call.save_path \in DOMAIN fs
    /\ nRequests = 0

\* C3 as stated: in a run that follows a run which came to its end, no
\* request is issued, every call returns Skipped and no file changes.
C3_SecondRunDoesNothing ==
    prev \in {"clean", "failed"} =>
        /\ nRequests = 0
        /\ last.result \in {"none", "Skipped"}
        /\ ~changed

\* C3 as amended: the same, in a run that follows a run which was not killed
\* and in which no call failed (each returned Done or Skipped).
C3_SecondRunAfterCleanRun ==
    prev = "clean" =>
        /\ nRequests = 0
        /\ last.result \in {"none", "Skipped"}
        /\ ~changed

\* a second run has ended after a first run without failures, with at least
\* two calls skipped
C3_Witness ==
    /\ prev = "clean"
    /\ pc = "finished"
    /\ nResolved >= 2
    /\ last.result = "Skipped"

\* C4: when a download call whose stream failed has returned, its temporary
\* file is gone, no file is at its destination, and it counts as failed.
C4_IncompleteLeavesNothing ==
    (Stable /\ last.result = "Incomplete") =>
        /\ LastTemp \notin DOMAIN fs
        /\ last.call.save_path \notin DOMAIN fs
        /\ nFailed >= 1

\* a stream has failed and the call has returned
C4_Witness ==
    /\ pc = "loop"
    /\ last.result = "Incomplete"
    /\ changed

\* C5: when a download call has returned because httpx raised or the status
\* was not 200, neither its temporary file nor its destination file exists.
C5_NoFileAfterConnectFailure ==
    (Stable /\ last.result \in {"Network", "HttpStatus"}) =>
        /\ LastTemp \notin DOMAIN fs
        /\ last.call.save_path \notin DOMAIN fs

\* C6: once a download call of a run has failed the run is not aborted: it
\* does not end in an uncaught exception, and when it comes to its end every
\* download call of the manifest has been made.
C6_FailureNeverAborts ==
    nFailed >= 1 =>
        /\ pc # "crashed"
        /\ pc = "finished" => nResolved = Len(AllCalls)

\* C7: no temporary path of a call is the destination of a call; and a
\* download call made while its temporary file exists and its destination
\* does not issues the request and does not return Skipped.
C7_PartIsNotTheDownload ==
    /\ [](Temps \cap Dests = {})
    /\ [][ ( /\ pc = "loop"
             /\ todo # <<>>
             /\ todo[1].op = "download"
             /\ TempPath(todo[1].save_path) \in DOMAIN fs
             /\ todo[1].save_path \notin DOMAIN fs )
           => ( /\ nRequests' = nRequests + 1
                /\ last'.result # "Skipped" ) ]_vars

\* a request has been answered for a call whose temporary file was there
\* when it was made
C7_Witness ==
    /\ pc = "connected"
    /\ cur.stale
    /\ cur.call.save_path \notin DOMAIN fs

\* C8: between the rename and os.utime the destination holds the complete
\* body, the temporary file is gone and no time has been applied; when the
\* call has returned Done the destination holds the complete body, the
\* temporary file is gone and both times are the call's created_time.
C8_RenameThenTimestamp ==
    /\ pc = "renamed" =>
          /\ cur.call.save_path \in DOMAIN fs
          /\ fs[cur.call.save_path] =
                [body |-> Body(cur.call.url), atime |-> WallClock,
                 mtime |-> WallClock]
          /\ TempPath(cur.call.save_path) \notin DOMAIN fs
    /\ (Stable /\ last.result = "Done") =>
          /\ last.call.save_path \in DOMAIN fs
          /\ fs[last.call.save_path] =
                [body |-> Body(last.call.url),
                 atime |-> last.call.created_time,
                 mtime |-> last.call.created_time]
          /\ LastTemp \notin DOMAIN fs

\* a call has returned Done
C8_Witness ==
    /\ pc = "loop"
    /\ last.result = "Done"
    /\ last.call.save_path \in DOMAIN fs

\* the awemes C9 speaks of: the video identifier is no asset identifier, and
\* there is one image, with urls, a valid live-photo identifier and a
\* live-photo url
C9_Applies(aweme) ==
    LET images == Get(aweme, "images", <<>>)
    IN  /\ ~is_valid_video_id(Get(PlayAddr(aweme), "uri", <<>>))
        /\ Len(images) = 1
        /\ Get(images[1], "url_list", <<>>) # <<>>
        /\ is_valid_video_id(Get(PlayAddr(images[1]), "uri", <<>>))
        /\ Get(PlayAddr(images[1]), "url_list", <<>>) # <<>>

\* the two tasks C9 names for such an aweme
C9_Expected(aweme) ==
    LET image   == Get(aweme, "images", <<>>)[1]
        L       == PlayAddr(image).uri
        user_id == Get(Get(aweme, "author", EmptyDict), "uid", Unknown)
        created == Get(aweme, "create_time", <<"0">>)
        urls    == image.url_list
    IN  << Call("LivePhotoClip", PlayAddr(image).url_list[1],
                PathJoin(save_dir, FileName(user_id, created, L, <<"m","o","v">>)),
                created),
           Call("Image", urls[Len(urls)],
                PathJoin(save_dir, FileName(user_id, created, L,
                                            <<"j","p","e","g">>)),
                created) >>

\* C9: the loop body of every such aweme makes exactly the two calls: the
\* clip from the first live-photo url under L with mov, then the image from
\* the last url under the same L with jpeg.
C9_LiveFallbackEmitsTwo ==
    \A i \in 1..idx :
        LET aweme == Records(manifest)[i]
        IN  C9_Applies(aweme) => process_aweme(aweme) = C9_Expected(aweme)

\* the video url_list of the aweme is there and empty
EmptyVideoUrls(aweme) == Get(PlayAddr(aweme), "url_list", <<"">>) = <<>>

\* C10: the loop body of an aweme whose video url sequence is empty makes no
\* Video call and lets no error out: the run does not end in it.
C10_EmptyVideoUrlsContained ==
    \A i \in 1..idx :
        LET aweme == Records(manifest)[i]
        IN  EmptyVideoUrls(aweme) =>
              /\ \A k \in 1..Len(process_aweme(aweme)) :
                    process_aweme(aweme)[k].kind # "Video"
              /\ ~(i = idx /\ pc = "crashed")

\* the image has urls and a live photo whose url_list is there and empty
LiveWithoutUrls(image_item) ==
    /\ ~NoUrls(image_item)
    /\ is_valid_video_id(Get(PlayAddr(image_item), "uri", <<>>))
    /\ Get(PlayAddr(image_item), "url_list", <<"">>) = <<>>

\* how many entries of a sequence of calls and warnings have this op
CountOp(calls, op) == Len(SelectSeq(calls, LAMBDA c : c.op = op))

\* the aweme has its images inspected and none of them has an empty
\* live-photo url_list
SkipApplies(aweme) ==
    LET images == Get(aweme, "images", <<>>)
    IN  /\ InspectsImages(aweme)
        /\ \A k \in 1..Len(images) : ~LiveWithoutUrls(images[k])

\* out holds one warning for each image of the aweme without urls and no
\* call for it, no raise, and one or two calls for each other image; it is
\* the warning alone when the sole image has no urls
SkipsEmptyUrls(aweme, out) ==
    LET images   == Get(aweme, "images", <<>>)
        withUrls == SelectSeq(images, LAMBDA im : ~NoUrls(im))
    IN  /\ CountOp(out, "warn") = Len(images) - Len(withUrls)
        /\ CountOp(out, "raise") = 0
        /\ CountOp(out, "download") >= Len(withUrls)
        /\ CountOp(out, "download") <= 2 * Len(withUrls)
        /\ (Len(images) = 1 /\ NoUrls(images[1])) => out = <<Warning>>

\* for every manifest of the model and each of its awemes: whether the two
\* hold
SkipTable ==
    <<>> @@
    [s \in IndexSeqs |->
        [i \in 1..Len(CallTable[s].awemes) |->
            [applies |-> SkipApplies(CallTable[s].awemes[i]),
             skips   |-> SkipsEmptyUrls(CallTable[s].awemes[i],
                                        CallTable[s].outs[i])]]]

IsSuffix(s, t) ==
    /\ Len(s) <= Len(t)
    /\ s = SubSeq(t, Len(t) - Len(s) + 1, Len(t))

ExtOf(kind) ==
    CASE kind = "Video"         -> <<"m","p","4">>
      [] kind = "Image"         -> <<"j","p","e","g">>
      [] kind = "LivePhotoClip" -> <<"m","o","v">>

\* the identifiers a task of this kind of the aweme may be named with: the
\* video identifier, the live-photo identifiers, and for an image also the
\* last segments of the image uris
IdentifiersOf(aweme, kind) ==
    LET images == Get(aweme, "images", <<>>)
        lives  == { Get(PlayAddr(images[k]), "uri", <<>>) : k \in 1..Len(images) }
        bases  == { LastSegment(Get(images[k], "uri", <<>>)) : k \in 1..Len(images) }
    IN  CASE kind = "Video"         -> { Get(PlayAddr(aweme), "uri", <<>>) }
          [] kind = "LivePhotoClip" -> lives
          [] kind = "Image"         -> lives \cup bases

\* the path is the save directory, a separator, and
\* douyin_<author id>_<formatted created time>_<one of the identifiers>.<ext>
WellNamed(aweme, call) ==
    LET author == Get(Get(aweme, "author", EmptyDict), "uid", Unknown)
        stamp  == timestamp_to_str(Get(aweme, "create_time", <<"0">>))
    IN  \E id \in IdentifiersOf(aweme, call.kind) :
            call.save_path =
                save_dir \o <<"/">> \o Douyin \o <<"_">> \o author \o <<"_">>
                         \o stamp \o <<"_">> \o id \o <<".">> \o ExtOf(call.kind)

\* the file of the path lies in the save directory itself
DirectlyInSaveDir(path) == RFind(path, "/") = Len(save_dir) + 1

\* C13: every call of the loop body of an aweme has a destination named
\* douyin_<author id>_<formatted created time>_<identifier>.<ext>, with mp4
\* for a video, jpeg for an image and mov for a live-photo clip, and lying in
\* the save directory itself.
C13_NameAndPlace ==
    cpc = "classified" =>
        \A k \in 1..Len(tasks) :
            tasks[k].op = "download" =>
                /\ WellNamed(record, tasks[k])
                /\ DirectlyInSaveDir(tasks[k].save_path)

\* the next call of the run has the destination of the call that returned
\* before it in this run
SameDestinationAgain ==
    /\ pc = "loop"
    /\ todo # <<>>
    /\ todo[1].op = "download"
    /\ last.call.op = "download"
    /\ last.call.save_path = todo[1].save_path

\* C14 as stated: a call with the destination of the call before it issues
\* no request and changes no file, however that call ended.
C14_SecondIsNoOp ==
    [][ SameDestinationAgain
        => (nRequests' = nRequests /\ fs' = fs) ]_vars

\* C14 as amended: so it is when the call before it returned Done or
\* Skipped; the second then returns Skipped.
C14_SecondIsNoOpAfterSuccess ==
    [][ (SameDestinationAgain /\ last.result \in {"Done", "Skipped"})
        => ( /\ nRequests' = nRequests
             /\ fs' = fs
             /\ last' = [call |-> todo[1], result |-> "Skipped"] ) ]_vars

\* in a first run a call was downloaded and the next call, with the same
\* destination, has returned Skipped
C14_Witness ==
    /\ prev = "none"
    /\ nResolved >= 2
    /\ nRequests = 1
    /\ last.result = "Skipped"
    /\ AllCalls[nResolved - 1].save_path = last.call.save_path
    /\ fs[last.call.save_path].atime = last.call.created_time

\* C15: two calls of the loop body of an aweme that differ (in kind or in
\* url) have different destinations.
C15_DistinctDestinations ==
    cpc = "classified" =>
        \A k, l \in 1..Len(tasks) :
            ( /\ tasks[k].op = "download"
              /\ tasks[l].op = "download"
              /\ tasks[k] # tasks[l] )
            => tasks[k].save_path # tasks[l].save_path

\* a download call has its response open and the process is alive
InFlight == cur.call # NoCall /\ pc # "killed"

\* C16: while a download call is in flight no other request is issued and
\* no other call or aweme is taken up; the call in flight is the first of
\* the calls still to make, and it leaves that list only by returning.  So
\* at most one fetch is in progress, which is within every positive limit.
C16_OneFetchAtATime ==
    /\ [](InFlight => (todo # <<>> /\ todo[1] = cur.call))
    /\ [][ InFlight
           => ( /\ nRequests' = nRequests
                /\ idx' = idx
                /\ \/ todo' = todo
                   \/ ( /\ todo' = Tail(todo)
                        /\ cur'.call = NoCall
                        /\ last'.call = cur.call ) ) ]_vars

\* a fetch is in progress while another call of the aweme waits
C16_Witness ==
    /\ pc = "streaming"
    /\ Len(todo) >= 2
    /\ todo[2].op = "download"
    /\ Len(fs[TempPath(cur.call.save_path)].body) >= 1

\* C17: when the run has been interrupted in the middle of a download call
\* (no call follows, the run being over), the call in flight has left neither
\* its temporary file nor a file at its destination.
C17_CancelLeavesNothing ==
    pc = "killed" =>
        /\ TempPath(cur.call.save_path) \notin DOMAIN fs
        /\ cur.call.save_path \notin DOMAIN fs

\* "author" or "video" of the aweme holds null where an object is expected
Malformed(aweme) ==
    \/ Get(aweme, "author", EmptyDict) = Null
    \/ Get(aweme, "video", EmptyDict) = Null

\* C18: the loop body of a malformed aweme makes no call, and the run does
\* not end in it: the awemes after it are processed.
C18_MalformedRecordSkipped ==
    \A i \in 1..idx :
        LET aweme == Records(manifest)[i]
        IN  Malformed(aweme) =>
              /\ CountOp(process_aweme(aweme), "download") = 0
              /\ ~(i = idx /\ pc = "crashed")

\* the file lies in the save directory or below it
UnderSaveDir(path) ==
    /\ Len(path) > Len(save_dir) + 1
    /\ SubSeq(path, 1, Len(save_dir) + 1) = save_dir \o <<"/">>

\* C19: every file the calls of an aweme create, rename or unlink lies in
\* the save directory or below it.
C19_FilesUnderSaveDir == \A p \in made : UnderSaveDir(p)

\* a well-formed asset identifier as the specification has it: one or more
\* ASCII letters or digits and nothing else
IsAssetIdentifier(value) ==
    /\ value # <<>>
    /\ {value[i] : i \in 1..Len(value)} \subseteq (Digit \cup Lower \cup Upper)

\* the kinds of what the loop of _process_images puts out
ImageKinds == {"Image", "LivePhotoClip", "Warning"}

\* C20 as stated: the loop body of an aweme whose video identifier is an
\* asset identifier makes exactly one call, a Video call, and nothing for its
\* images; calls and warnings for images occur only under a video identifier
\* that is none.
C20_ValidVideoOnly ==
    cpc = "classified" =>
        LET id == Get(PlayAddr(record), "uri", <<>>)
        IN  /\ IsAssetIdentifier(id) =>
                  /\ CountOp(tasks, "download") = 1
                  /\ \A k \in 1..Len(tasks) :
                        tasks[k].op = "download" => tasks[k].kind = "Video"
            /\ (\E k \in 1..Len(tasks) : tasks[k].kind \in ImageKinds)
                  => ~IsAssetIdentifier(id)

\* C20 as amended: under a video identifier that is an asset identifier
\* nothing is made for the images; the one Video call, from the first video
\* url, is made when the aweme is well-formed and its video url_list is not
\* empty, and no call at all otherwise.  Under a video identifier that is
\* none no Video call is made, and a well-formed aweme with video urls gets
\* what the loop over its images gives, in their order.
C20_ValidVideoNoImages ==
    cpc = "classified" =>
        LET id      == Get(PlayAddr(record), "uri", <<>>)
            sound   == ~Malformed(record) /\ ~EmptyVideoUrls(record)
            user_id == Get(Get(record, "author", EmptyDict), "uid", Unknown)
            created == Get(record, "create_time", <<"0">>)
        IN  /\ IsAssetIdentifier(id) =>
                  /\ \A k \in 1..Len(tasks) : tasks[k].kind \notin ImageKinds
                  /\ sound =>
                        /\ Len(tasks) = 1
                        /\ tasks[1].kind = "Video"
                        /\ tasks[1].url =
                              Get(PlayAddr(record), "url_list", <<"">>)[1]
                  /\ ~sound => CountOp(tasks, "download") = 0
            /\ ~IsAssetIdentifier(id) =>
                  /\ \A k \in 1..Len(tasks) : tasks[k].kind # "Video"
                  /\ sound => tasks = process_images(record, user_id, created)

\* a Video call has been made for an aweme that also has a live photo
C20_Witness ==
    /\ cpc = "classified"
    /\ IsAssetIdentifier(Get(PlayAddr(record), "uri", <<>>))
    /\ Len(tasks) = 1
    /\ tasks[1].kind = "Video"
    /\ record.images # <<>>
    /\ record.images[1] = LiveImage

\* the image has urls and its live-photo identifier is absent, empty or no
\* asset identifier
PlainImage(image_item) ==
    /\ ~NoUrls(image_item)
    /\ ~IsAssetIdentifier(Get(PlayAddr(image_item), "uri", <<>>))

\* how many entries the specification has an image put out: the warning for
\* one without urls, the clip and the still for a live photo, one Image task
\* for any other
EntriesOf(image_item) ==
    IF NoUrls(image_item) THEN 1
    ELSE IF PlainImage(image_item) THEN 1
    ELSE 2

\* the entries of the images before the k-th
RECURSIVE EntriesBefore(_, _)
EntriesBefore(images, k) ==
    IF k <= 1 THEN 0
    ELSE EntriesBefore(images, k - 1) + EntriesOf(images[k - 1])

RECURSIVE ToNat(_)
ToNat(digits) ==
    IF digits = <<>> THEN 0
    ELSE 10 * ToNat(SubSeq(digits, 1, Len(digits) - 1))
         + (CHOOSE d \in 0..9 : <<"0","1","2","3","4","5","6","7","8","9">>[d + 1]
                                    = digits[Len(digits)])

\* the last n digits of ts and the digits before them (all of ts and none
\* when it has fewer)
LowDigits(ts, n) == SubSeq(ts, Len(ts) - n + 1, Len(ts))
HighDigits(ts, n) == SubSeq(ts, 1, Len(ts) - n)

\* ts > 1e10 as numbers: ts = hi * 1e10 + lo with lo < 1e10, and it is above
\* 1e10 when hi > 1, or hi = 1 and lo > 0 (lo is looked at in two halves of
\* five digits)
Above1e10(ts) ==
    LET hi   == ToNat(HighDigits(ts, 10))
        lo   == LowDigits(ts, 10)
        loHi == ToNat(HighDigits(lo, 5))
        loLo == ToNat(LowDigits(lo, 5))
    IN  hi > 1 \/ (hi = 1 /\ loHi + loLo > 0)

\* C22: timestamp_to_str formats a value above 1e10 as the whole seconds of
\* its thousandth, and any other value, 1e10 itself among them, as it is;
\* hence a value s not above 1e10 whose thousandfold is above 1e10 has the
\* formatted string of its thousandfold.
C22_Normalization ==
    (cpc = "stamp" /\ tasks # <<>>) =>
        LET raw == record.create_time
        IN  /\ Above1e10(raw) =>
                  /\ Len(tasks[1]) = Len(raw) - 3
                  /\ tasks[1] \o LowDigits(raw, 3) = raw
            /\ ~Above1e10(raw) => tasks[1] = raw
            /\ raw = <<"1">> \o Zeros(10) => tasks[1] = raw
            /\ (Len(tasks) = 2 /\ ~Above1e10(raw) /\ Above1e10(Times1000(raw)))
                  => tasks[2] = tasks[1]

\* 1700000000 and 1700000000000 have been formatted
C22_Witness ==
    /\ cpc = "stamp"
    /\ record.create_time = Seconds
    /\ Len(tasks) = 2
    /\ tasks[1] = tasks[2]
    /\ Times1000(record.create_time) = Millis

\* the download calls of the first n awemes of the manifest
RECURSIVE CallsUpTo(_)
CallsUpTo(n) ==
    IF n = 0 THEN 0 ELSE CallsUpTo(n - 1) + CountOp(Outs[n], "download")

\* the download calls this run has taken up so far: those of the awemes
\* reached that are no longer among the calls to make, and the one in flight
TakenUp ==
    CallsUpTo(idx) - CountOp(todo, "download")
        + (IF cur.call # NoCall THEN 1 ELSE 0)

\* C23: a run issues at most one request for each download call it has
\* taken up; a request is issued for the first of the calls still to make
\* only, one at a time; and a call that has failed leaves the calls to make
\* for good, with the failure counted once.
C23_NoRetry ==
    /\ [](nRequests <= TakenUp)
    /\ [][ nRequests' # nRequests =>
              \/ pc' = "loop" /\ nRequests' = 0 /\ idx' = 0
              \/ /\ nRequests' = nRequests + 1
                 /\ todo # <<>>
                 /\ (cur'.call = todo[1] \/ last'.call = todo[1]) ]_vars
    /\ [][ (nResolved' = nResolved + 1 /\ last'.result \in Failures) =>
              /\ todo' = Tail(todo)
              /\ nFailed' = nFailed + 1
              /\ nRequests' <= nRequests + 1 ]_vars

\* a run has come to its end with every call requested once, one of them
\* having failed and left no file
C23_Witness ==
    /\ pc = "finished"
    /\ prev = "none"
    /\ Len(AllCalls) >= 2
    /\ nRequests = Len(AllCalls)
    /\ nFailed = 1
    /\ \E k \in 1..Len(AllCalls) : AllCalls[k].save_path \notin DOMAIN fs

\* C24: when os.utime has raised after the rename, the call returns with the
\* failure counted, the destination file stays with the complete body (and
\* the times of its writing), no temporary file is left, and the run goes on
\* in the loop with the next call.
C24_UtimeFailureKeepsFile ==
    /\ []( (Stable /\ last.result = "Utime") =>
              /\ last.call.save_path \in DOMAIN fs
              /\ fs[last.call.save_path] =
                    [body |-> Body(last.call.url), atime |-> WallClock,
                     mtime |-> WallClock]
              /\ LastTemp \notin DOMAIN fs
              /\ nFailed >= 1 )
    /\ [][ (pc = "renamed" /\ last'.result = "Utime") =>
              /\ fs' = fs
              /\ pc' = "loop"
              /\ todo' = Tail(todo)
              /\ idx' = idx ]_vars

\* in a first run os.utime has failed for the clip of a live photo, its file
\* is in place, and the call after it has been downloaded
C24_Witness ==
    /\ prev = "none"
    /\ pc = "loop"
    /\ nFailed = 1
    /\ nRequests = 2
    /\ last.result = "Done"
    /\ last.call.kind = "Image"
    /\ \E p \in DOMAIN fs :
          /\ fs[p].mtime = WallClock
          /\ Len(fs[p].body) = NumChunks
          /\ p \in Dests

\* C25: when a call has returned Done, the modification time of its file, in
\* seconds, is the instant its name is formatted from: the thousandth of a
\* created_time above 1e10 (whole seconds), and created_time itself otherwise.
C25_MtimeIsNormalized ==
    (Stable /\ last.result = "Done") =>
        LET raw   == last.call.created_time
            mtime == fs[last.call.save_path].mtime
        IN  /\ Above1e10(raw) => mtime = HighDigits(raw, 3)
            /\ ~Above1e10(raw) => mtime = raw

\* C26: the temporary file a download call in flight writes is the
\* temporary file of no call of the manifest with another destination: calls
\* with different destinations have different temporary paths.
C26_TempPathsDistinct ==
    pc = "streaming" =>
        \A d \in CallSet :
            d.save_path # cur.call.save_path
                => TempPath(d.save_path) # TempPath(cur.call.save_path)

\* the call in flight found its temporary file in place when it was made
StaleInFlight == cur.call # NoCall /\ cur.stale

\* C27: a download call that found its temporary file in place writes to an
\* empty file from its first chunk on, so what the file holds is what this
\* stream has yielded so far; the file is renamed to the destination only
\* from the end of the stream, and the destination then holds exactly the
\* body of this call.
C27_StaleTempTruncated ==
    /\ []( (StaleInFlight /\ pc = "streaming") =>
              fs[TempPath(cur.call.save_path)].body =
                  SubSeq(Body(cur.call.url), 1, cur.sent) )
    /\ []( (StaleInFlight /\ pc = "renamed") =>
              /\ fs[cur.call.save_path].body = Body(cur.call.url)
              /\ TempPath(cur.call.save_path) \notin DOMAIN fs )
    /\ [][ ( /\ StaleInFlight
             /\ cur.call.save_path \notin DOMAIN fs
             /\ cur.call.save_path \in DOMAIN fs' )
           => ( /\ pc = "streaming"
                /\ cur.sent = NumChunks
                /\ fs'[cur.call.save_path].body = Body(cur.call.url) ) ]_vars

\* after a run that was killed, a call that found the temporary file in
\* place has streamed its body and the file has been renamed
C27_Witness ==
    /\ prev = "killed"
    /\ StaleInFlight
    /\ pc = "renamed"
    /\ nRequests = 1
    /\ fs[cur.call.save_path].body = Body(cur.call.url)

=============================================================================
